---------------------------- MODULE Spec2Model ----------------------------
(***************************************************************************)
(* LigandPlots: the GROMACS post-processing pipeline (main.py, gromacs.py, *)
(* plots.py, helpers.py) as a state machine.                               *)
(*                                                                         *)
(* File names that the code globs, sorts or tests with endswith are        *)
(* sequences of character codes, so that pattern matching and the order of *)
(* sorted() are computed and not assumed.  The fixed artifact names the    *)
(* commands embed are strings.  `trace` is the history of what a run did.  *)
(***************************************************************************)
EXTENDS Integers, Sequences, FiniteSets, TLC

VARIABLES
    pc,           \* the statement of LigandPlots.Run that executes next
    run_gromacs,  \* LigandPlots.run_gromacs (the --run-gromacs flag)
    listing,      \* the entries of the working directory that exist before the run
    folders,      \* the subfolders of the working directory that exist
    files,        \* the artifacts written into the working directory by the run
    scratch,      \* the archive members extracted into the working directory
    exc,          \* the exception that left Run, "none" while there is none
    tars,         \* the member names of each archive of the listing, in member order
    report,       \* the lines gmx check writes to trajectory_info.txt when it runs
    trace,        \* history: the events of the run, in order
    xvg_file,     \* read_xvg_files: the lines of the file given to it
    xvg_result    \* read_xvg_files: what the call produced

vars == <<pc, run_gromacs, listing, folders, files, scratch, exc, tars, report,
          trace, xvg_file, xvg_result>>

pipeline_vars == <<pc, run_gromacs, listing, folders, files, scratch, exc, tars,
                   report, trace>>

(***************************************************************************)
(* Bounds                                                                  *)
(***************************************************************************)
MaxFiles == 4        \* entries of the working directory before the run
MaxMembers == 2      \* members of one archive
MaxReportLines == 2  \* lines of trajectory_info.txt
MaxXvgLines == 2     \* lines of an .xvg file given to read_xvg_files

(***************************************************************************)
(* Sequences                                                               *)
(***************************************************************************)
Range(s) == {s[i] : i \in 1..Len(s)}

SeqsUpTo(S, n) == UNION {[1..k -> S] : k \in 0..n}

RECURSIVE Flatten(_)
Flatten(ss) == IF ss = <<>> THEN <<>> ELSE Head(ss) \o Flatten(Tail(ss))

StartsWith(s, p) == Len(s) >= Len(p) /\ SubSeq(s, 1, Len(p)) = p

EndsWith(s, p) == Len(s) >= Len(p) /\ SubSeq(s, Len(s) - Len(p) + 1, Len(s)) = p

(***************************************************************************)
(* File names as character codes                                           *)
(***************************************************************************)
STAR == 42                                           \* "*"
TPR_PATTERN == <<109,100,95,48,95,42,46,116,112,114>>   \* "md_0_*.tpr"
ARCHIVE_PATTERN ==                                   \* "my_job_*.output.tar.gz"
    <<109,121,95,106,111,98,95,42,46,111,117,116,112,117,116,46,116,97,114,46,103,122>>
XTC_SUFFIX == <<46,120,116,99>>                      \* ".xtc"
MY_OUTPUT == <<109,121,95,111,117,116,112,117,116,47>>  \* "my_output/"

\* "1", "10", "2": as numbers 1 < 2 < 10, as text "1" < "10" < "2"
Stems == {<<49>>, <<49,48>>, <<50>>}

TprName(stem) == <<109,100,95,48,95>> \o stem \o <<46,116,112,114>>

ArchiveName(stem) ==
    <<109,121,95,106,111,98,95>> \o stem \o <<46,111,117,116,112,117,116,46,116,97,114,46,103,122>>

\* entries that match neither pattern and sort after every md_0_*.tpr
OtherNames == { <<109,100,95,49,95,57,46,116,112,114>>,                  \* "md_1_9.tpr"
                <<109,100,95,48,95,51,46,116,112,114,46,98,97,107>> }    \* "md_0_3.tpr.bak"

EntryNames ==
    {TprName(s) : s \in Stems} \cup {ArchiveName(s) : s \in Stems \ {<<49>>}} \cup OtherNames

\* "my_output/a.xtc", "my_output/a.log", "c.xtc"
MemberNames == { MY_OUTPUT \o <<97>> \o XTC_SUFFIX,
                 MY_OUTPUT \o <<97,46,108,111,103>>,
                 <<99>> \o XTC_SUFFIX }

MemberLists == SeqsUpTo(MemberNames, MaxMembers)

(***************************************************************************)
(* helpers.find_files_with_same_pattern: sorted(Path(path).glob(pattern))  *)
(***************************************************************************)
\* str.__lt__ on the names of one directory: code point by code point
RECURSIVE LexLess(_, _)
LexLess(a, b) ==
    IF b = <<>> THEN FALSE
    ELSE IF a = <<>> THEN TRUE
    ELSE IF Head(a) # Head(b) THEN Head(a) < Head(b)
    ELSE LexLess(Tail(a), Tail(b))

\* a pattern with one "*": the text before it, any text, the text after it
GlobMatch(name, pattern) ==
    LET star == CHOOSE i \in 1..Len(pattern) : pattern[i] = STAR
        pre == SubSeq(pattern, 1, star - 1)
        suf == SubSeq(pattern, star + 1, Len(pattern))
    IN  /\ Len(name) >= Len(pre) + Len(suf)
        /\ StartsWith(name, pre)
        /\ EndsWith(name, suf)

glob(dir, pattern) == {n \in dir : GlobMatch(n, pattern)}

RECURSIVE sorted(_)
sorted(S) ==
    IF S = {} THEN <<>>
    ELSE LET least == CHOOSE x \in S : \A y \in S \ {x} : LexLess(x, y)
         IN  <<least>> \o sorted(S \ {least})

find_files_with_same_pattern(dir, pattern) == sorted(glob(dir, pattern))

\* mutant: the first match instead of the last
find_first_tpr_file(dir) ==
    LET found == find_files_with_same_pattern(dir, TPR_PATTERN)
    IN  IF found = <<>> THEN [ok |-> FALSE, err |-> "IndexError"]
        ELSE [ok |-> TRUE, name |-> found[1]]

\* GromacsData._find_last_tpr_file: [-1] of the sorted matches, IndexError on none
find_last_tpr_file(dir) ==
    LET found == find_files_with_same_pattern(dir, TPR_PATTERN)
    IN  IF found = <<>> THEN [ok |-> FALSE, err |-> "IndexError"]
        ELSE [ok |-> TRUE, name |-> found[Len(found)]]


(***************************************************************************)
(* get_latest_configuration: re.search(r'Last frame\s+(\d+(\.\d+)?)', line) *)
(* A line is a sequence of symbols; the literal "Last frame" is one symbol *)
(* and every other symbol is one character.                                *)
(***************************************************************************)
LAST_FRAME == "Last frame"
Whitespace == {" "}
Digits == {"0", "1", "2", "3", "4", "5", "6", "7", "8", "9"}
NoMatch == [found |-> FALSE, group1 |-> <<>>]

\* the number of consecutive symbols of S in line from position i on
RECURSIVE RunLen(_, _, _)
RunLen(line, i, S) ==
    IF i > Len(line) \/ line[i] \notin S THEN 0 ELSE 1 + RunLen(line, i + 1, S)

\* the pattern anchored at position i: literal, \s+, then group 1 = \d+(\.\d+)?
MatchAt(line, i) ==
    LET w  == RunLen(line, i + 1, Whitespace)
        d0 == i + 1 + w
        d  == RunLen(line, d0, Digits)
        f0 == d0 + d
        f  == IF f0 <= Len(line) /\ line[f0] = "." THEN RunLen(line, f0 + 1, Digits) ELSE 0
    IN  IF line[i] = LAST_FRAME /\ w >= 1 /\ d >= 1
        THEN [found |-> TRUE,
              group1 |-> SubSeq(line, d0, IF f >= 1 THEN f0 + f ELSE f0 - 1)]
        ELSE NoMatch

\* re.search: the match at the leftmost position that has one
re_search(line) ==
    LET at == {i \in 1..Len(line) : MatchAt(line, i).found}
    IN  IF at = {} THEN NoMatch
        ELSE MatchAt(line, CHOOSE i \in at : \A j \in at : i <= j)

None == <<"None">>   \* what f"{last_frame}" puts into the command for None

\* mutant: the loop without its break, the last matching line wins
RECURSIVE parse_last_frame_no_break(_)
parse_last_frame_no_break(lines) ==
    IF lines = <<>> THEN None
    ELSE LET rest == parse_last_frame_no_break(Tail(lines))
             match == re_search(Head(lines))
         IN  IF rest # None THEN rest
             ELSE IF match.found THEN match.group1 ELSE None

\* gromacs.py 242-248: last_frame = None; for line in lines: if match: ...; break
RECURSIVE parse_last_frame(_)
parse_last_frame(lines) ==
    IF lines = <<>> THEN None
    ELSE LET match == re_search(Head(lines))
         IN  IF match.found THEN match.group1 ELSE parse_last_frame(Tail(lines))

ReportLines ==
    { <<"x">>,
      <<LAST_FRAME>>,
      <<LAST_FRAME, "1">>,
      <<LAST_FRAME, " ", "7">>,
      <<"x", LAST_FRAME, " ", " ", "4", "2", "x">>,
      <<LAST_FRAME, " ", "1", "5", "0", "0", ".", "0">>,
      <<LAST_FRAME, " ", "3", ".">>,
      <<LAST_FRAME, " ", "x", LAST_FRAME, " ", "9">> }

Reports == SeqsUpTo(ReportLines, MaxReportLines)

(***************************************************************************)
(* helpers.read_xvg_files.  A line is a sequence of characters (without    *)
(* its newline); a file is a sequence of lines.                            *)
(***************************************************************************)
XvgChars == {"#", "@", " ", "1"}

XvgLines == {<<>>} \cup {<<a>> : a \in XvgChars}
                   \cup {<<a, b>> : a \in XvgChars, b \in XvgChars}
                   \cup {<<a, b, c>> : a \in XvgChars, b \in XvgChars, c \in XvgChars}

XvgFiles == SeqsUpTo(XvgLines, MaxXvgLines)

\* mutant: only '#' starts a comment
is_comment_hash_only(line) == line # <<>> /\ line[1] = "#"

\* line.startswith('#') or line.startswith('@')
is_comment(line) == line # <<>> /\ (line[1] = "#" \/ line[1] = "@")

\* line.strip().split(): the maximal runs of non-whitespace characters
RECURSIVE split(_)
split(s) ==
    IF s = <<>> THEN <<>>
    ELSE IF Head(s) \in Whitespace THEN split(Tail(s))
    ELSE LET n == RunLen(s, 1, XvgChars \ Whitespace)
         IN  <<SubSeq(s, 1, n)>> \o split(SubSeq(s, n + 1, Len(s)))

\* float(val): over these characters a token is a number iff it is all digits
is_float(tok) == \A i \in 1..Len(tok) : tok[i] \in Digits

DigitValue(c) == CHOOSE v \in 0..9 : <<"0","1","2","3","4","5","6","7","8","9">>[v + 1] = c

RECURSIVE float(_)
float(tok) ==
    IF tok = <<>> THEN 0
    ELSE 10 * float(SubSeq(tok, 1, Len(tok) - 1)) + DigitValue(tok[Len(tok)])

\* the loop of lines 72-78: the rows so far, or the ValueError of float()
RECURSIVE read_rows(_)
read_rows(lines) ==
    IF lines = <<>> THEN [ok |-> TRUE, rows |-> <<>>]
    ELSE LET line == Head(lines)
             toks == split(line)
             rest == read_rows(Tail(lines))
         IN  IF is_comment(line) THEN rest
             ELSE IF \E i \in 1..Len(toks) : ~is_float(toks[i])
                  THEN [ok |-> FALSE, rows |-> <<>>]
             ELSE IF ~rest.ok THEN rest
             ELSE [ok |-> TRUE,
                   rows |-> <<[i \in 1..Len(toks) |-> float(toks[i])]>> \o rest.rows]

\* np.array(data, dtype=float): rows of unequal length raise ValueError
np_array(data) ==
    IF \A i, j \in 1..Len(data) : Len(data[i]) = Len(data[j])
    THEN [ok |-> TRUE, rows |-> data, err |-> "none"]
    ELSE [ok |-> FALSE, rows |-> <<>>, err |-> "ValueError"]

read_xvg_files(file) ==
    LET data == read_rows(file)
    IN  IF data.ok THEN np_array(data.rows)
        ELSE [ok |-> FALSE, rows |-> <<>>, err |-> "ValueError"]


(***************************************************************************)
(* The working directory, seen from the host and from the container        *)
(***************************************************************************)
PATH == "path"                            \* self.path
CONTAINER_WORK_DIR == "/container/data"
volume == [host |-> PATH, bind |-> CONTAINER_WORK_DIR, mode |-> "rw"]

\* the host directory behind a directory of the container
HostDir(working_dir) == IF working_dir = volume.bind THEN volume.host ELSE working_dir

\* a relative file name of a command run by _run_gromacs_container
InContainer(name) == <<HostDir(CONTAINER_WORK_DIR), name>>

\* f"{self.path}/<name>" of plots.py and of the open() of gromacs.py
xvg_path(name) == <<PATH, name>>

image_path(name) == <<"path/images", name>>   \* self.images_path + name

\* helpers.create_folder: mkdir(parents=True, exist_ok=True)
create_folder_missing(dirs, folder_name) == dirs

create_folder(dirs, folder_name) == dirs \cup {folder_name}

(***************************************************************************)
(* The command lines of gromacs.py                                         *)
(***************************************************************************)
Command(call, tool, select, reads, writes, s, f, dump) ==
    [call |-> call, tool |-> tool, select |-> select, reads |-> reads,
     writes |-> writes, s |-> s, f |-> f, dump |-> dump]

cmd_minimization ==
    Command("minimization", "gmx energy", <<10, 0>>,
            {InContainer("em.edr")}, {InContainer("potential.xvg")}, <<>>, <<>>, <<>>)

cmd_nvt ==
    Command("nvt", "gmx energy", <<16, 0>>,
            {InContainer("nvt.edr")}, {InContainer("temperature.xvg")}, <<>>, <<>>, <<>>)

cmd_npt_pressure ==
    Command("npt_pressure", "gmx energy", <<18, 0>>,
            {InContainer("npt.edr")}, {InContainer("pressure.xvg")}, <<>>, <<>>, <<>>)

cmd_npt_density ==
    Command("npt_density", "gmx energy", <<24, 0>>,
            {InContainer("npt.edr")}, {InContainer("density.xvg")}, <<>>, <<>>, <<>>)

cmd_trjcat(xtc_files) ==
    Command("trjcat", "gmx trjcat", <<>>,
            {}, {InContainer("final.xtc")}, <<>>, xtc_files, <<>>)

\* mutant: the periodicity fix writes another name than the later steps read
cmd_fix_periodicity_renamed(filename) ==
    Command("fix_periodicity", "gmx trjconv", <<1, 0>>,
            {InContainer("final.xtc")}, {InContainer("fixed_pbc.xtc")}, filename, <<>>, <<>>)

cmd_fix_periodicity(filename) ==
    Command("fix_periodicity", "gmx trjconv", <<1, 0>>,
            {InContainer("final.xtc")}, {InContainer("fixed.xtc")}, filename, <<>>, <<>>)

cmd_initial_configuration(filename) ==
    Command("initial_configuration", "gmx trjconv", <<22>>,
            {InContainer("fixed.xtc"), InContainer("index.ndx")},
            {InContainer("initial_configuration.pdb")}, filename, <<>>, <<"0">>)

cmd_check ==
    Command("check", "gmx check", <<>>,
            {InContainer("fixed.xtc")}, {InContainer("trajectory_info.txt")}, <<>>, <<>>, <<>>)

cmd_dump_latest(filename, last_frame) ==
    Command("dump_latest", "gmx trjconv", <<22>>,
            {InContainer("fixed.xtc"), InContainer("index.ndx")},
            {InContainer("last_configuration.pdb")}, filename, <<>>, last_frame)

(***************************************************************************)
(* LigandPlots.Run: the order of the statements                            *)
(***************************************************************************)
\* mutant: the NVT step is run before the minimization
NextStepSwapped(p, flag) ==
    CASE p = "GromacsData"            -> "nvt"
      [] p = "nvt"                    -> "minimization"
      [] p = "minimization"           -> "npt"
      [] p = "npt"                    -> IF flag THEN "final_xtc" ELSE "initial_configuration"
      [] p = "final_xtc"              -> "fix_periodicity"
      [] p = "fix_periodicity"        -> "initial_configuration"
      [] p = "initial_configuration"  -> "latest_configuration"
      [] p = "latest_configuration"   -> "Plots"
      [] p = "Plots"                  -> "plot_energy_minimization"
      [] p = "plot_energy_minimization" -> "plot_temperature"
      [] p = "plot_temperature"       -> "plot_pressure"
      [] p = "plot_pressure"          -> "plot_density"
      [] p = "plot_density"           -> "done"

NextStep(p, flag) ==
    CASE p = "GromacsData"            -> "minimization"
      [] p = "minimization"           -> "nvt"
      [] p = "nvt"                    -> "npt"
      [] p = "npt"                    -> IF flag THEN "final_xtc" ELSE "initial_configuration"
      [] p = "final_xtc"              -> "fix_periodicity"
      [] p = "fix_periodicity"        -> "initial_configuration"
      [] p = "initial_configuration"  -> "latest_configuration"
      [] p = "latest_configuration"   -> "Plots"
      [] p = "Plots"                  -> "plot_energy_minimization"
      [] p = "plot_energy_minimization" -> "plot_temperature"
      [] p = "plot_temperature"       -> "plot_pressure"
      [] p = "plot_pressure"          -> "plot_density"
      [] p = "plot_density"           -> "done"

Ev(kind, step, arg) == [ev |-> kind, step |-> step, arg |-> arg]

\* mutant: the exception is caught and the run goes on with the next statement
RaiseSwallowed(err) == pc' = NextStep(pc, run_gromacs) /\ exc' = "none"

\* no statement of Run, generate_gromacs_data or generate_ligand_plots is in a try
Raise(err) == pc' = "raised" /\ exc' = err

Return == pc' = NextStep(pc, run_gromacs) /\ exc' = exc

\* one blocking _run_gromacs_container call and what the method does with it
Returned(c) == <<Ev("invoke", c.call, c), Ev("return", c.call, c)>>
Failed(c) == <<Ev("invoke", c.call, c), Ev("raise", pc, "ContainerError")>>

(***************************************************************************)
(* Initial states: the working directory and what the external tool will   *)
(* find in it, before LigandPlots(path, protein, run_gromacs).Run()        *)
(***************************************************************************)
Listings == {L \in SUBSET EntryNames : Cardinality(L) <= MaxFiles}

MEMBER_LOG == MY_OUTPUT \o <<97,46,108,111,103>>
MEMBER_A == MY_OUTPUT \o <<97>> \o XTC_SUFFIX
MEMBER_C == <<99>> \o XTC_SUFFIX

DefaultReport == << <<"x">>, <<LAST_FRAME, " ", "1", "5", "0", "0", ".", "0">> >>

Start ==
    /\ pc = "GromacsData"
    /\ files = {}
    /\ scratch = {}
    /\ exc = "none"
    /\ trace = <<>>
    /\ xvg_file = <<>>
    /\ xvg_result = [state |-> "idle"]

\* any directory content, in a fresh or in a used directory
InitDirectory ==
    /\ run_gromacs \in BOOLEAN
    /\ listing \in Listings
    /\ folders \in {{}, {"results"}, {"results", "images", "my_output"}}
    /\ tars = [a \in glob(listing, ARCHIVE_PATTERN) |-> <<MEMBER_LOG, MEMBER_A>>]
    /\ report = DefaultReport

\* any content of the first of two archives
InitArchives ==
    /\ run_gromacs = TRUE
    /\ listing = {TprName(<<49>>), ArchiveName(<<49, 48>>), ArchiveName(<<50>>)}
    /\ folders = {}
    /\ \E first \in MemberLists, second \in {<<>>, <<MEMBER_A>>, <<MEMBER_LOG, MEMBER_C>>} :
           tars = (ArchiveName(<<49, 48>>) :> first) @@ (ArchiveName(<<50>>) :> second)
    /\ report = DefaultReport

\* any report of gmx check
InitReport ==
    /\ run_gromacs = FALSE
    /\ listing = {TprName(<<49>>)}
    /\ folders = {}
    /\ tars = [a \in glob(listing, ARCHIVE_PATTERN) |-> <<>>]
    /\ report \in Reports

Init == Start /\ (InitDirectory \/ InitArchives \/ InitReport)

(***************************************************************************)
(* generate_gromacs_data                                                   *)
(***************************************************************************)
GromacsData ==
    /\ pc = "GromacsData"
    /\ folders' = create_folder(folders, "results")
    /\ trace' = trace \o <<Ev("mkdir", pc, "results")>>
    /\ Return
    /\ UNCHANGED <<run_gromacs, listing, files, scratch, tars, report, xvg_file, xvg_result>>

\* a method that is one container call
RunOne(c) ==
    \E ok \in BOOLEAN :
        IF ok
        THEN /\ trace' = trace \o Returned(c)
             /\ files' = files \cup c.writes
             /\ Return
        ELSE /\ trace' = trace \o Failed(c)
             /\ files' = files
             /\ Raise("ContainerError")

generate_minimization_data ==
    /\ pc = "minimization"
    /\ RunOne(cmd_minimization)
    /\ UNCHANGED <<run_gromacs, listing, folders, scratch, tars, report, xvg_file, xvg_result>>

generate_nvt_data ==
    /\ pc = "nvt"
    /\ RunOne(cmd_nvt)
    /\ UNCHANGED <<run_gromacs, listing, folders, scratch, tars, report, xvg_file, xvg_result>>

generate_npt_data ==
    /\ pc = "npt"
    /\ \E pressure_ok \in BOOLEAN, density_ok \in BOOLEAN :
        IF ~pressure_ok
        THEN /\ trace' = trace \o Failed(cmd_npt_pressure)
             /\ files' = files
             /\ Raise("ContainerError")
        ELSE IF ~density_ok
        THEN /\ trace' = trace \o Returned(cmd_npt_pressure) \o Failed(cmd_npt_density)
             /\ files' = files \cup cmd_npt_pressure.writes
             /\ Raise("ContainerError")
        ELSE /\ trace' = trace \o Returned(cmd_npt_pressure) \o Returned(cmd_npt_density)
             /\ files' = files \cup cmd_npt_pressure.writes \cup cmd_npt_density.writes
             /\ Return
    /\ UNCHANGED <<run_gromacs, listing, folders, scratch, tars, report, xvg_file, xvg_result>>

\* mutant: every member is extracted and listed
xtc_members_all(members) == members

\* the members of one archive that the loop extracts and lists
xtc_members(members) == SelectSeq(members, LAMBDA m : EndsWith(m, XTC_SUFFIX))

generate_final_xtc_file ==
    /\ pc = "final_xtc"
    /\ LET steps == find_files_with_same_pattern(listing, ARCHIVE_PATTERN)
       IN  \E bad \in 0..Len(steps), ok \in BOOLEAN :
            LET n == IF bad = 0 THEN Len(steps) ELSE bad - 1
                extraction == Flatten([i \in 1..n |->
                                  <<Ev("open", pc, <<steps[i], tars[steps[i]]>>)>> \o
                                  [k \in 1..Len(xtc_members(tars[steps[i]])) |->
                                      Ev("extract", pc, xtc_members(tars[steps[i]])[k])]])
                xtc_files == Flatten([i \in 1..n |-> xtc_members(tars[steps[i]])])
                extracted == scratch \cup Range(xtc_files)
                made == IF \E m \in Range(xtc_files) : StartsWith(m, MY_OUTPUT)
                        THEN folders \cup {"my_output"} ELSE folders
                c == cmd_trjcat(xtc_files)
            IN  IF bad # 0
                THEN \* tarfile.open fails on archive number `bad`
                     /\ trace' = trace \o extraction \o <<Ev("raise", pc, "ReadError")>>
                     /\ scratch' = extracted /\ folders' = made /\ files' = files
                     /\ Raise("ReadError")
                ELSE IF ~ok
                THEN /\ trace' = trace \o extraction \o Failed(c)
                     /\ scratch' = extracted /\ folders' = made /\ files' = files
                     /\ Raise("ContainerError")
                ELSE IF "my_output" \notin made
                THEN \* shutil.rmtree of a folder that does not exist
                     /\ trace' = trace \o extraction \o Returned(c)
                                       \o <<Ev("raise", pc, "FileNotFoundError")>>
                     /\ scratch' = extracted /\ folders' = made
                     /\ files' = files \cup c.writes
                     /\ Raise("FileNotFoundError")
                ELSE /\ trace' = trace \o extraction \o Returned(c)
                                       \o <<Ev("rmtree", pc, "my_output")>>
                     /\ scratch' = {m \in extracted : ~StartsWith(m, MY_OUTPUT)}
                     /\ folders' = made \ {"my_output"}
                     /\ files' = files \cup c.writes
                     /\ Return
    /\ UNCHANGED <<run_gromacs, listing, tars, report, xvg_file, xvg_result>>

fix_periodicity ==
    /\ pc = "fix_periodicity"
    /\ LET tpr == find_last_tpr_file(listing)
       IN  IF ~tpr.ok
           THEN /\ trace' = trace \o <<Ev("raise", pc, tpr.err)>>
                /\ files' = files
                /\ Raise(tpr.err)
           ELSE RunOne(cmd_fix_periodicity(tpr.name))
    /\ UNCHANGED <<run_gromacs, listing, folders, scratch, tars, report, xvg_file, xvg_result>>

get_initial_configuration ==
    /\ pc = "initial_configuration"
    /\ LET tpr == find_last_tpr_file(listing)
       IN  IF ~tpr.ok
           THEN /\ trace' = trace \o <<Ev("raise", pc, tpr.err)>>
                /\ files' = files
                /\ Raise(tpr.err)
           ELSE RunOne(cmd_initial_configuration(tpr.name))
    /\ UNCHANGED <<run_gromacs, listing, folders, scratch, tars, report, xvg_file, xvg_result>>

get_latest_configuration ==
    /\ pc = "latest_configuration"
    /\ \E check_ok \in BOOLEAN, dump_ok \in BOOLEAN :
        LET info == xvg_path("trajectory_info.txt")
            lines == report
            last_frame == parse_last_frame(lines)
            tpr == find_last_tpr_file(listing)
            parsed == Returned(cmd_check) \o <<Ev("readlines", pc, <<info, lines>>)>>
        IN  IF ~check_ok
            THEN /\ trace' = trace \o Failed(cmd_check)
                 /\ files' = files
                 /\ Raise("ContainerError")
            ELSE IF info \notin files \cup cmd_check.writes
            THEN /\ trace' = trace \o Returned(cmd_check)
                                   \o <<Ev("raise", pc, "FileNotFoundError")>>
                 /\ files' = files \cup cmd_check.writes
                 /\ Raise("FileNotFoundError")
            ELSE IF ~tpr.ok
            THEN /\ trace' = trace \o parsed \o <<Ev("raise", pc, tpr.err)>>
                 /\ files' = files \cup cmd_check.writes
                 /\ Raise(tpr.err)
            ELSE IF ~dump_ok
            THEN /\ trace' = trace \o parsed \o Failed(cmd_dump_latest(tpr.name, last_frame))
                 /\ files' = files \cup cmd_check.writes
                 /\ Raise("ContainerError")
            ELSE /\ trace' = trace \o parsed \o Returned(cmd_dump_latest(tpr.name, last_frame))
                 /\ files' = files \cup cmd_check.writes
                                   \cup cmd_dump_latest(tpr.name, last_frame).writes
                 /\ Return
    /\ UNCHANGED <<run_gromacs, listing, folders, scratch, tars, report, xvg_file, xvg_result>>

(***************************************************************************)
(* generate_ligand_plots                                                   *)
(***************************************************************************)
Plots ==
    /\ pc = "Plots"
    /\ folders' = create_folder(folders, "images")
    /\ trace' = trace \o <<Ev("mkdir", pc, "images")>>
    /\ Return
    /\ UNCHANGED <<run_gromacs, listing, files, scratch, tars, report, xvg_file, xvg_result>>

\* what the energy tool may have left in an .xvg file
XvgSamples ==
    { << <<"#">>, <<"@", "1">>, <<"1", " ", "1">> >>,   \* two comments, one row of two
      << <<"1", " ", "1">>, <<"1">> >>,                 \* rows of two and of one
      << <<"1", "@">> >>,                               \* a token that is no number
      << <<"1">> >>,                                    \* one column
      <<>> }                                            \* no line

\* read_xvg_files, the two column slices and plot_data, then plt.savefig
plot(name, png) ==
    \E content \in XvgSamples, saved \in BOOLEAN :
        LET file == xvg_path(name)
            data == read_xvg_files(content)
            read == <<Ev("read", pc, file)>>
        IN  IF file \notin files
            THEN /\ trace' = trace \o <<Ev("raise", pc, "FileNotFoundError")>>
                 /\ Raise("FileNotFoundError")
            ELSE IF ~data.ok
            THEN /\ trace' = trace \o read \o <<Ev("raise", pc, data.err)>>
                 /\ Raise(data.err)
            ELSE IF Len(data.rows) = 0 \/ Len(data.rows[1]) < 2
            THEN /\ trace' = trace \o read \o <<Ev("raise", pc, "IndexError")>>
                 /\ Raise("IndexError")
            ELSE IF ~saved
            THEN /\ trace' = trace \o read \o <<Ev("raise", pc, "OSError")>>
                 /\ Raise("OSError")
            ELSE /\ trace' = trace \o read \o <<Ev("render", pc, image_path(png))>>
                 /\ Return

plot_energy_minimization ==
    /\ pc = "plot_energy_minimization"
    /\ plot("potential.xvg", "minimization.png")
    /\ UNCHANGED <<run_gromacs, listing, folders, files, scratch, tars, report, xvg_file, xvg_result>>

plot_temperature ==
    /\ pc = "plot_temperature"
    /\ plot("temperature.xvg", "temperature.png")
    /\ UNCHANGED <<run_gromacs, listing, folders, files, scratch, tars, report, xvg_file, xvg_result>>

plot_pressure ==
    /\ pc = "plot_pressure"
    /\ plot("pressure.xvg", "pressure.png")
    /\ UNCHANGED <<run_gromacs, listing, folders, files, scratch, tars, report, xvg_file, xvg_result>>

plot_density ==
    /\ pc = "plot_density"
    /\ plot("density.xvg", "density.png")
    /\ UNCHANGED <<run_gromacs, listing, folders, files, scratch, tars, report, xvg_file, xvg_result>>

Next ==
    \/ GromacsData
    \/ generate_minimization_data
    \/ generate_nvt_data
    \/ generate_npt_data
    \/ generate_final_xtc_file
    \/ fix_periodicity
    \/ get_initial_configuration
    \/ get_latest_configuration
    \/ Plots
    \/ plot_energy_minimization
    \/ plot_temperature
    \/ plot_pressure
    \/ plot_density

Spec == Init /\ [][Next]_vars

(***************************************************************************)
(* read_xvg_files on every file within the bounds                          *)
(***************************************************************************)
InitXvg ==
    /\ pc = "done"
    /\ run_gromacs = FALSE
    /\ listing = {}
    /\ folders = {}
    /\ files = {}
    /\ scratch = {}
    /\ exc = "none"
    /\ tars = <<>>
    /\ report = <<>>
    /\ trace = <<>>
    /\ xvg_file \in XvgFiles
    /\ xvg_result = [state |-> "idle"]

ReadXvg ==
    /\ xvg_result.state = "idle"
    /\ xvg_result' = [state |-> "returned", value |-> read_xvg_files(xvg_file)]
    /\ UNCHANGED <<pipeline_vars, xvg_file>>

NextXvg == ReadXvg

SpecXvg == InitXvg /\ [][NextXvg]_vars


(***************************************************************************)
(* Reading the history                                                     *)
(***************************************************************************)
Idx == 1..Len(trace)

Is(i, kind, step) == trace[i].ev = kind /\ trace[i].step = step

Happened(kind, step) == \E i \in Idx : Is(i, kind, step)

\* the calls of the external tool, in the order they were issued
CallsMade ==
    LET invokes == SelectSeq(trace, LAMBDA e : e.ev = "invoke")
    IN  [i \in 1..Len(invokes) |-> invokes[i].step]

\* the images rendered, in order
Rendered ==
    LET renders == SelectSeq(trace, LAMBDA e : e.ev = "render")
    IN  [i \in 1..Len(renders) |-> renders[i].arg[2]]

IsPrefix(s, t) == Len(s) <= Len(t) /\ SubSeq(t, 1, Len(s)) = s

ChartSteps == {"plot_energy_minimization", "plot_temperature", "plot_pressure", "plot_density"}

TrjconvCalls == {"fix_periodicity", "initial_configuration", "dump_latest"}

\* the lines the run read from trajectory_info.txt (one readlines at most)
LinesRead == trace[CHOOSE i \in Idx : trace[i].ev = "readlines"].arg[2]

Matching(lines) == {k \in 1..Len(lines) : re_search(lines[k]).found}

(***************************************************************************)
(* C1: if no line of trajectory_info.txt matches 'Last frame <number>',    *)
(* get_latest_configuration fails and the trjconv -dump call that writes   *)
(* last_configuration.pdb is never issued.                                 *)
(***************************************************************************)
C1_NoDumpWithoutLastFrame ==
    (Happened("readlines", "latest_configuration") /\ Matching(LinesRead) = {})
        => (~Happened("invoke", "dump_latest") /\ pc = "raised")

(***************************************************************************)
(* C2: in a run in which no step fails the external steps are invoked in   *)
(* the fixed order, each at most once and each after the previous one has  *)
(* returned, the trajectory chain iff the flag is set, and the four charts *)
(* are rendered in order after all of them have returned.                  *)
(***************************************************************************)
ExpectedCalls(flag) ==
    <<"minimization", "nvt", "npt_pressure", "npt_density">>
    \o (IF flag THEN <<"trjcat", "fix_periodicity">> ELSE <<>>)
    \o <<"initial_configuration", "check", "dump_latest">>

ExpectedCharts == <<"minimization.png", "temperature.png", "pressure.png", "density.png">>

C2_FixedOrder ==
    exc = "none" =>
        /\ IsPrefix(CallsMade, ExpectedCalls(run_gromacs))
        /\ \A i \in Idx : trace[i].ev = "invoke" =>
               /\ i < Len(trace)
               /\ Is(i + 1, "return", trace[i].step)
        /\ IsPrefix(Rendered, ExpectedCharts)
        /\ \A i \in Idx : trace[i].ev \in {"read", "render"} =>
               /\ CallsMade = ExpectedCalls(run_gromacs)
               /\ \A j \in Idx : trace[j].ev \in {"invoke", "return"} => j < i
        /\ pc \in ChartSteps \cup {"Plots", "done"} => CallsMade = ExpectedCalls(run_gromacs)
        /\ pc = "done" => Rendered = ExpectedCharts

C2_Witness ==
    /\ pc = "done"
    /\ run_gromacs
    /\ Len(CallsMade) = 9
    /\ Len(Rendered) = 4

(***************************************************************************)
(* C3: a failure of any step aborts the run there: nothing of the fixed    *)
(* order is invoked afterwards, the failed step is not invoked again, and  *)
(* the failure leaves Run.                                                 *)
(***************************************************************************)
C3_AbortOnFailure ==
    /\ (exc # "none") <=> (pc = "raised")
    /\ \A i \in Idx : trace[i].ev = "raise" =>
           /\ i = Len(trace)
           /\ pc = "raised"
           /\ exc = trace[i].arg
    /\ pc = "raised" => trace # <<>> /\ trace[Len(trace)].ev = "raise"
    /\ \A i, j \in Idx :
           (trace[i].ev = "invoke" /\ trace[j].ev = "invoke" /\ trace[i].step = trace[j].step)
               => i = j
    /\ \A i, j \in Idx :
           (trace[i].ev = "render" /\ trace[j].ev = "render" /\ trace[i].step = trace[j].step)
               => i = j

C3_Witness ==
    /\ pc = "raised"
    /\ exc = "ValueError"
    /\ Is(Len(trace), "raise", "plot_temperature")
    /\ Rendered = <<"minimization.png">>

(***************************************************************************)
(* C4 as stated: both the results and the images subfolder exist before    *)
(* the minimization step is invoked.                                       *)
(***************************************************************************)
C4_BothFoldersBeforeMinimization ==
    pc = "minimization" => {"results", "images"} \subseteq folders

(***************************************************************************)
(* C4 amended: results exists before the minimization step is invoked and  *)
(* images exists before the first chart is read or rendered; each is made  *)
(* by one create_folder call of the run and is never removed.              *)
(***************************************************************************)
C4_FoldersBeforeUse ==
    /\ (pc = "minimization" \/ \E i \in Idx : trace[i].ev = "invoke")
           => /\ "results" \in folders
              /\ Is(1, "mkdir", "GromacsData") /\ trace[1].arg = "results"
    /\ (pc \in ChartSteps \/ \E i \in Idx : trace[i].ev \in {"read", "render"})
           => /\ "images" \in folders
              /\ \E i \in Idx : Is(i, "mkdir", "Plots") /\ trace[i].arg = "images"
    /\ \A i \in Idx : trace[i].ev = "mkdir" => trace[i].arg \in folders
    /\ \A i, j \in Idx :
           (trace[i].ev = "mkdir" /\ trace[j].ev = "mkdir" /\ trace[i].arg = trace[j].arg)
               => i = j
    /\ \A i \in Idx : trace[i].ev = "rmtree" => trace[i].arg \notin {"results", "images"}

C4_Witness ==
    /\ pc = "minimization"
    /\ "results" \in folders
    /\ "images" \notin folders

(***************************************************************************)
(* C5: every step that needs the topology file passes the greatest name,   *)
(* in code point order, among the entries matching md_0_*.tpr; with no     *)
(* such entry the search returns the empty list and the step fails with    *)
(* no trjconv call issued.                                                 *)
(***************************************************************************)
\* "md_0_" then anything then ".tpr"
IsTprName(n) ==
    /\ Len(n) >= 9
    /\ \A k \in 1..5 : n[k] = <<109, 100, 95, 48, 95>>[k]
    /\ \A k \in 1..4 : n[Len(n) - 4 + k] = <<46, 116, 112, 114>>[k]

TprEntries == {n \in listing : IsTprName(n)}

C5_LastTprFile ==
    /\ \A i \in Idx : (trace[i].ev = "invoke" /\ trace[i].step \in TrjconvCalls) =>
           /\ trace[i].arg.s \in TprEntries
           /\ \A n \in TprEntries : n = trace[i].arg.s \/ LexLess(n, trace[i].arg.s)
    /\ TprEntries = {} =>
           /\ find_files_with_same_pattern(listing, TPR_PATTERN) = <<>>
           /\ \A i \in Idx : trace[i].ev = "invoke" => trace[i].step \notin TrjconvCalls
           /\ pc \notin {"latest_configuration", "Plots", "done"} \cup ChartSteps
           /\ \A i \in Idx :
                  (trace[i].ev = "raise"
                   /\ trace[i].step \in {"fix_periodicity", "initial_configuration"})
                      => trace[i].arg = "IndexError"

\* three calls with the topology file, taken among "1", "10", "2" and two other entries
C5_Witness ==
    /\ Happened("invoke", "dump_latest")
    /\ Happened("invoke", "fix_periodicity")
    /\ {TprName(<<49, 48>>), TprName(<<50>>)} \subseteq listing
    /\ listing \cap OtherNames # {}
    /\ \A i \in Idx : (trace[i].ev = "invoke" /\ trace[i].step \in TrjconvCalls) =>
           trace[i].arg.s = TprName(<<50>>)

\* a step that needs the topology file fails for want of one
C5_WitnessNone ==
    /\ TprEntries = {}
    /\ listing # {}
    /\ pc = "raised"
    /\ exc = "IndexError"

(***************************************************************************)
(* C6 as stated: read_xvg_files returns one row per data line, in file     *)
(* order, each the numbers of its line; a line is a comment exactly when   *)
(* its first character is '#' or '@'; the read fails iff some token of a   *)
(* data line is no number.                                                 *)
(***************************************************************************)
DataLines(file) == SelectSeq(file, LAMBDA l : ~(Len(l) > 0 /\ l[1] \in {"#", "@"}))

Numbers(l) == [k \in 1..Len(split(l)) |-> float(split(l)[k])]

HasBadToken(file) ==
    \E i \in 1..Len(DataLines(file)) :
        \E k \in 1..Len(split(DataLines(file)[i])) : ~is_float(split(DataLines(file)[i])[k])

Ragged(file) ==
    \E i, j \in 1..Len(DataLines(file)) :
        Len(split(DataLines(file)[i])) # Len(split(DataLines(file)[j]))

RowsAreDataLines(file, rows) ==
    /\ Len(rows) = Len(DataLines(file))
    /\ \A i \in 1..Len(rows) : rows[i] = Numbers(DataLines(file)[i])

C6_RowPerDataLine ==
    xvg_result.state = "returned" =>
        IF HasBadToken(xvg_file)
        THEN ~xvg_result.value.ok
        ELSE xvg_result.value.ok /\ RowsAreDataLines(xvg_file, xvg_result.value.rows)

(***************************************************************************)
(* C6 amended: when the data lines all have the same number of tokens and  *)
(* every token is a number, read_xvg_files returns one row per data line,  *)
(* in file order, each the numbers of its line; a line is a comment        *)
(* exactly when its first character is '#' or '@'; the read fails when a   *)
(* token of a data line is no number and also when two data lines differ   *)
(* in their number of tokens.                                              *)
(***************************************************************************)
C6_RowPerDataLineOfEqualLength ==
    xvg_result.state = "returned" =>
        IF HasBadToken(xvg_file) \/ Ragged(xvg_file)
        THEN ~xvg_result.value.ok /\ xvg_result.value.err = "ValueError"
        ELSE xvg_result.value.ok /\ RowsAreDataLines(xvg_file, xvg_result.value.rows)

\* a comment between two data lines would need three lines; here one of each
C6_Witness ==
    /\ xvg_result.state = "returned"
    /\ xvg_result.value.ok
    /\ xvg_file = << <<"@", " ", "1">>, <<"1", " ", "1">> >>
    /\ xvg_result.value.rows = << <<1, 1>> >>

(***************************************************************************)
(* C7: when lines of the report match, the -dump argument of the second    *)
(* call is the number text captured from the first matching line, and      *)
(* later matching lines have no effect; 'Last frame 1500.0' gives 1500.0.  *)
(***************************************************************************)
C7_FirstMatchingLine ==
    /\ re_search(<<LAST_FRAME, " ", "1", "5", "0", "0", ".", "0">>).group1
           = <<"1", "5", "0", "0", ".", "0">>
    /\ \A i \in Idx : Is(i, "invoke", "dump_latest") =>
           /\ Happened("readlines", "latest_configuration")
           /\ Matching(LinesRead) # {} =>
                  \E k \in Matching(LinesRead) :
                      /\ \A j \in Matching(LinesRead) : k <= j
                      /\ trace[i].arg.dump = re_search(LinesRead[k]).group1

\* two matching lines with different numbers, the first one used
C7_Witness ==
    /\ Happened("return", "dump_latest")
    /\ Len(LinesRead) = 2
    /\ Matching(LinesRead) = {1, 2}
    /\ re_search(LinesRead[1]).group1 = <<"1", "5", "0", "0", ".", "0">>
    /\ re_search(LinesRead[2]).group1 = <<"9">>
    /\ \E i \in Idx : Is(i, "invoke", "dump_latest")
                      /\ trace[i].arg.dump = <<"1", "5", "0", "0", ".", "0">>

(***************************************************************************)
(* C8: for either value of the flag, the periodicity fix is invoked only   *)
(* after the concatenation has returned in the run, and every stage that   *)
(* reads fixed.xtc only after the periodicity fix has returned in the run. *)
(***************************************************************************)
C8_ChainOrder ==
    /\ \A i \in Idx : Is(i, "invoke", "fix_periodicity") =>
           \E j \in 1..(i - 1) : Is(j, "return", "trjcat")
    /\ \A i \in Idx :
           (trace[i].ev = "invoke"
            /\ trace[i].step \in {"initial_configuration", "check", "dump_latest"})
               => \E j \in 1..(i - 1) : Is(j, "return", "fix_periodicity")

(***************************************************************************)
(* C9: every artifact a step or chart reads is, by name and directory, the *)
(* output of a step that precedes it in the fixed order: final.xtc,        *)
(* fixed.xtc, trajectory_info.txt and the four .xvg files.                 *)
(***************************************************************************)
Artifacts ==
    {"final.xtc", "fixed.xtc", "trajectory_info.txt",
     "potential.xvg", "temperature.xvg", "pressure.xvg", "density.xvg"}

Producer(a) ==
    CASE a = "final.xtc"           -> "trjcat"
      [] a = "fixed.xtc"           -> "fix_periodicity"
      [] a = "trajectory_info.txt" -> "check"
      [] a = "potential.xvg"       -> "minimization"
      [] a = "temperature.xvg"     -> "nvt"
      [] a = "pressure.xvg"        -> "npt_pressure"
      [] a = "density.xvg"         -> "npt_density"

Consumers(a) ==
    CASE a = "final.xtc"           -> {"fix_periodicity"}
      [] a = "fixed.xtc"           -> {"initial_configuration", "check", "dump_latest"}
      [] a = "trajectory_info.txt" -> {"latest_configuration"}
      [] a = "potential.xvg"       -> {"plot_energy_minimization"}
      [] a = "temperature.xvg"     -> {"plot_temperature"}
      [] a = "pressure.xvg"        -> {"plot_pressure"}
      [] a = "density.xvg"         -> {"plot_density"}

\* inputs the run expects to find, which no step of it writes
GivenInputs == {"em.edr", "nvt.edr", "npt.edr", "index.ndx"}

FixedOrder ==
    <<"minimization", "nvt", "npt_pressure", "npt_density", "trjcat", "fix_periodicity",
      "initial_configuration", "check", "latest_configuration", "dump_latest",
      "plot_energy_minimization", "plot_temperature", "plot_pressure", "plot_density">>

Position(step) == CHOOSE k \in 1..Len(FixedOrder) : FixedOrder[k] = step

\* the fixed-name files an event reads
ReadsOf(e) ==
    CASE e.ev = "invoke"    -> e.arg.reads
      [] e.ev = "read"      -> {e.arg}
      [] e.ev = "readlines" -> {e.arg[1]}
      [] OTHER              -> {}

C9_FilenameContract ==
    /\ \A a \in Artifacts : \A c \in Consumers(a) : Position(Producer(a)) < Position(c)
    /\ \A i \in Idx :
        /\ \A f \in ReadsOf(trace[i]) :
               /\ f[1] = PATH
               /\ f[2] \in GivenInputs \cup Artifacts
               /\ f[2] \in Artifacts => trace[i].step \in Consumers(f[2])
        /\ \A a \in Artifacts :
               /\ (trace[i].ev \in {"invoke", "read", "readlines"}
                   /\ trace[i].step \in Consumers(a))
                      => <<PATH, a>> \in ReadsOf(trace[i])
               /\ Is(i, "invoke", Producer(a)) =>
                      /\ trace[i].arg.writes = {<<PATH, a>>}
                      /\ \A j \in Idx :
                             (trace[j].ev \in {"invoke", "read", "readlines"}
                              /\ trace[j].step \in Consumers(a)) => i < j

C9_Witness ==
    /\ pc = "done"
    /\ run_gromacs
    /\ \A a \in Artifacts : Happened("invoke", Producer(a))
    /\ \A a \in Artifacts : \A c \in Consumers(a) :
           \E i \in Idx : trace[i].step = c /\ <<PATH, a>> \in ReadsOf(trace[i])

(***************************************************************************)
(* C10: the concatenation command lists exactly the .xtc members of all    *)
(* archives matching my_job_*.output.tar.gz, in the sorted order of the    *)
(* archives and the member order inside each; everything is extracted      *)
(* before the one concatenation call; the scratch folder is removed only   *)
(* after that call has returned (it stays when the call fails) and nothing *)
(* else is deleted.                                                        *)
(***************************************************************************)
IsArchiveName(n) ==
    /\ Len(n) >= 21
    /\ SubSeq(n, 1, 7) = <<109, 121, 95, 106, 111, 98, 95>>
    /\ SubSeq(n, Len(n) - 13, Len(n))
           = <<46, 111, 117, 116, 112, 117, 116, 46, 116, 97, 114, 46, 103, 122>>

ArchiveEntries == {n \in listing : IsArchiveName(n)}

IsXtc(m) == Len(m) >= 4 /\ SubSeq(m, Len(m) - 3, Len(m)) = <<46, 120, 116, 99>>

\* the archives opened, in order, each with its members
Opened ==
    LET opens == SelectSeq(trace, LAMBDA e : e.ev = "open")
    IN  [i \in 1..Len(opens) |-> opens[i].arg]

Extracted ==
    LET extracts == SelectSeq(trace, LAMBDA e : e.ev = "extract")
    IN  [i \in 1..Len(extracts) |-> extracts[i].arg]

XtcOfOpened == Flatten([i \in 1..Len(Opened) |-> SelectSeq(Opened[i][2], IsXtc)])

C10_Concatenation ==
    /\ \A i \in Idx : Is(i, "invoke", "trjcat") =>
           /\ {Opened[k][1] : k \in 1..Len(Opened)} = ArchiveEntries
           /\ \A k \in 1..Len(Opened) : Opened[k][2] = tars[Opened[k][1]]
           /\ \A k \in 1..(Len(Opened) - 1) : LexLess(Opened[k][1], Opened[k + 1][1])
           /\ trace[i].arg.f = XtcOfOpened
           /\ Extracted = XtcOfOpened
           /\ \A j \in Idx : trace[j].ev \in {"open", "extract"} => j < i
           /\ \A j \in Idx : Is(j, "invoke", "trjcat") => j = i
           /\ Is(i + 1, "raise", "final_xtc") =>
                  /\ ~\E j \in Idx : trace[j].ev = "rmtree"
                  /\ Range(Extracted) \subseteq scratch
                  /\ (\E m \in Range(Extracted) : StartsWith(m, MY_OUTPUT))
                         => "my_output" \in folders
    /\ \A j \in Idx : trace[j].ev = "rmtree" =>
           /\ trace[j].arg = "my_output"
           /\ j > 1 /\ Is(j - 1, "return", "trjcat")
           /\ "my_output" \notin folders
    /\ \A m \in Range(Extracted) : ~StartsWith(m, MY_OUTPUT) => m \in scratch
    /\ \A j \in Idx : trace[j].ev = "return" => trace[j].arg.writes \subseteq files

\* two archives "10" and "2", several members each, concatenated and cleaned up
C10_Witness ==
    /\ \E j \in Idx : trace[j].ev = "rmtree"
    /\ Len(Opened) = 2
    /\ Opened[1][1] = ArchiveName(<<49, 48>>)
    /\ Opened[2][1] = ArchiveName(<<50>>)
    /\ Len(XtcOfOpened) = 3
    /\ \E k \in 1..2 : Len(Opened[k][2]) > Len(SelectSeq(Opened[k][2], IsXtc))
    /\ \E m \in scratch : ~StartsWith(m, MY_OUTPUT)

=============================================================================
